---- MODULE Spec2Model ----
(***************************************************************************)
(* cleanup.py: removal of the files and sub folders of one directory that  *)
(* are older than a number of days.                                        *)
(*                                                                         *)
(* The state is the directory (its immediate children, their kind, their   *)
(* status-change time and what the sub folders hold), the wall clock, the  *)
(* options of the invocation, and the position of __main__ and of the      *)
(* sweep it is running.                                                    *)
(*                                                                         *)
(* Time is in whole seconds since the start of day 0, in a time zone       *)
(* without clock changes.                                                  *)
(***************************************************************************)
EXTENDS Integers, Sequences, FiniteSets

\* ------------------------------------------------------------- bounds ----
\* Largest value of --files_after / --folders_after that is tried.
MaxDays == 1
\* Seconds the wall clock may advance in all.
MaxTicks == 1
\* Changes another process makes to the directory in one behaviour.
MaxEnv == 1

\* ---------------------------------------------------------- constants ----
\* timedelta(days=1), in seconds.
SecondsPerDay == 86400
\* ' 23:59:59' as seconds after midnight.
EndOfDaySecs == 86399

NameSeq == <<"a", "b", "c">>
Names == {NameSeq[i] : i \in DOMAIN NameSeq}
NestedNames == {"x"}
Kinds == {"files", "folders"}
NoTime == -1

\* The day the script is first started on, late enough for every cutoff to
\* be a time of the model.
Today == MaxDays + 1
EndOfDay(d) == d * SecondsPerDay + EndOfDaySecs
\* The script is first started in the last second of Today.
Clock0 == EndOfDay(Today)
MaxClock == Clock0 + MaxTicks

\* Status-change times of the entries found at the start: one second before
\* and exactly at the cutoff of the largest threshold.
CTimes == {EndOfDay(Today - MaxDays) - 1, EndOfDay(Today - MaxDays)}

Absent == [kind |-> "none", ctime |-> 0, sub |-> {}]
NestedEntries == [name : NestedNames, ctime : CTimes]
FileEntries == [kind : {"file"}, ctime : CTimes, sub : {{}}]
DirEntries ==
    [kind : {"dir"}, ctime : CTimes,
     sub : {s \in SUBSET NestedEntries :
              \A x, y \in s : x.name = y.name => x = y}]
Entries == {Absent} \cup FileEntries \cup DirEntries

VARIABLES
    fs,               \* the children of the directory: Names -> Entries
    pathKind,         \* what PATH names: "dir", "file" or "none"
    clock,            \* datetime.now(), in seconds
    rm_files, rm_files_after, rm_folders, rm_folders_after, dryrun,
    pc,               \* position of __main__
    sweep,            \* the sweep running: "none", "files" or "folders"
    rm_time,          \* the sweep's cutoff
    todo,             \* the listing not yet iterated
    f,                \* the loop variable (file / dir)
    cnt,              \* the sweep's counter
    fi_cnt, fo_cnt,   \* what __main__ got back from the sweeps
    err,              \* the exception that ended the "" if none
    envLeft,          \* changes the other process may still make
    \* observation only: what the claims are stated over
    snap,             \* per kind, the directory when that sweep was entered
    cuts,             \* per kind, the cutoff that sweep of this run uses
    fin,              \* the kinds whose sweep has returned in this run
    prev              \* per kind, the cutoff and the count of the sweep
                      \* that returned in the run before
opts == <<rm_files, rm_files_after, rm_folders, rm_folders_after, dryrun>>
obs == <<snap, cuts, fin, prev>>
vars == <<fs, pathKind, clock, opts, pc, sweep, rm_time, todo, f, cnt,
          fi_cnt, fo_cnt, err, envLeft, obs>>

\* ------------------------------------------------------ pure functions ----

get_time_before_now(now, days) == now - days * SecondsPerDay

\* get_time_before: 23:59:59 of the day of `now`, minus `days` days.
get_time_before(now, days) ==
    ((now \div SecondsPerDay) * SecondsPerDay + EndOfDaySecs)
        - days * SecondsPerDay

is_older_le(e, comp_time) == e.ctime <= comp_time

\* is_older: the entry's status-change time is before comp_time.
is_older(e, comp_time) == e.ctime < comp_time

\* os.path.isfile / os.path.isdir of a child.
isfile(e) == e.kind = "file"
isdir(e) == e.kind = "dir"

KindOkUnchecked(k, e) == TRUE

\* The re-check of lines 96 and 122.
KindOk(k, e) == IF k = "files" THEN isfile(e) ELSE isdir(e)

\* All the orders a set of names may be listed in.
Orders(S) ==
    {s \in [1..Cardinality(S) -> S] : \A i, j \in 1..Cardinality(S) :
                                          s[i] = s[j] => i = j}

\* get_files_by_path / get_subdirs_by_path: the names os.walk gives for the
\* top directory, in the order the file system enumerates them.
get_files_by_path(d) == Orders({n \in Names : d[n].kind = "file"})
get_subdirs_by_path(d) == Orders({n \in Names : d[n].kind = "dir"})
Listing(k, d) ==
    IF k = "files" THEN get_files_by_path(d) ELSE get_subdirs_by_path(d)

\* os.remove(f_path): the outcomes it may have, "" for the entry removed and
\* otherwise the exception raised. Whether the process is permitted to delete
\* an entry is not part of the state: either outcome may happen.
os_remove(e) ==
    CASE e.kind = "none" -> {"FileNotFoundError"}
      [] e.kind = "dir" -> {"IsADirectoryError"}
      [] OTHER -> {"", "PermissionError"}

\* shutil.rmtree(d_path): the outcomes it may have, "" for the whole tree
\* removed and otherwise the exception raised.
shutil_rmtree(e) ==
    CASE e.kind = "none" -> {"FileNotFoundError"}
      [] e.kind = "file" -> {"NotADirectoryError"}
      [] OTHER -> {"", "PermissionError"}

RemoveCallRmtree(k, e) == shutil_rmtree(e)

\* Line 102 / line 128: the call that deletes.
RemoveCall(k, e) == IF k = "files" THEN os_remove(e) ELSE shutil_rmtree(e)

\* What a failed delete leaves of the entry: os.remove leaves it as it was, a
\* failed rmtree may already have removed part of the tree.
AfterFailure(k, e) ==
    IF k = "folders" /\ e.kind = "dir"
    THEN {[e EXCEPT !.sub = s] : s \in SUBSET e.sub}
    ELSE {e}

ThresholdOf(k) == IF k = "files" THEN rm_files_after ELSE rm_folders_after

\* ---------------------------------------------------------------- Init ----

\* The names of a directory are interchangeable and every order of listing
\* them is taken, so of the directories that differ only in which name holds
\* which entry one is enough: the one with the entries in this order.
KindRank(e) == CASE e.kind = "none" -> 0 [] e.kind = "file" -> 1 [] OTHER -> 2
SubRank(s) == IF s = {} THEN 0 ELSE 1 + (CHOOSE x \in s : TRUE).ctime
EntryLeq(a, b) ==
    \/ KindRank(a) < KindRank(b)
    \/ /\ KindRank(a) = KindRank(b)
       /\ \/ a.ctime < b.ctime
          \/ a.ctime = b.ctime /\ SubRank(a.sub) <= SubRank(b.sub)
Directories ==
    {d \in [Names -> Entries] :
        \A i, j \in DOMAIN NameSeq :
            i < j => EntryLeq(d[NameSeq[i]], d[NameSeq[j]])}
NoDirectory == [n \in Names |-> Absent]

Init ==
    /\ pathKind \in {"dir", "file", "none"}
    /\ fs \in IF pathKind = "dir" THEN Directories ELSE {NoDirectory}
    /\ clock = Clock0
    /\ rm_files \in BOOLEAN
    /\ rm_files_after \in 0..MaxDays
    /\ rm_folders \in BOOLEAN
    /\ rm_folders_after \in 0..MaxDays
    /\ dryrun \in BOOLEAN
    /\ pc = "start"
    /\ sweep = "none"
    /\ rm_time = NoTime
    /\ todo = <<>>
    /\ f = NameSeq[1]
    /\ cnt = 0
    /\ fi_cnt = 0
    /\ fo_cnt = 0
    /\ err = ""
    /\ envLeft = MaxEnv
    /\ snap = [k \in Kinds |-> fs]
    /\ cuts = [k \in Kinds |-> NoTime]
    /\ fin = {}
    /\ prev = [k \in Kinds |-> [cut |-> NoTime, cnt |-> 0]]

\* ------------------------------------------------------------- actions ----

\* An uncaught exception ends the run.
Raise(e) ==
    /\ pc' = "error"
    /\ err' = e

PathIsDirUnchecked == TRUE

\* Line 181: os.path.isdir(path).
PathIsDir == pathKind = "dir"

\* Lines 179-182: the path must be a directory.
MainValidate ==
    /\ pc = "start"
    /\ IF PathIsDir
       THEN pc' = "main_files" /\ err' = err
       ELSE Raise("NotADirectoryError")
    /\ UNCHANGED <<fs, pathKind, clock, opts, sweep, rm_time, todo, f, cnt,
                   fi_cnt, fo_cnt, envLeft, obs>>

\* Lines 92-94 and 118-120: cnt = 0, the cutoff, the listing.
SweepBegin(k) ==
    /\ sweep' = k
    /\ cnt' = 0
    /\ rm_time' = get_time_before(clock, ThresholdOf(k))
    /\ IF pathKind = "dir"
       THEN /\ todo' \in Listing(k, fs)
            /\ pc' = "loop"
            /\ err' = err
       ELSE \* next() of an os.walk that yields nothing
            /\ todo' = <<>>
            /\ Raise("StopIteration")
    /\ snap' = [snap EXCEPT ![k] = fs]
    /\ cuts' = [cuts EXCEPT ![k] = rm_time']

\* Lines 183-188.
MainFiles ==
    /\ pc = "main_files"
    /\ IF rm_files
       THEN SweepBegin("files")
       ELSE /\ pc' = "main_folders"
            /\ UNCHANGED <<sweep, cnt, rm_time, todo, err, snap, cuts>>
    /\ UNCHANGED <<fs, pathKind, clock, opts, f, fi_cnt, fo_cnt, envLeft, fin, prev>>

\* Lines 189-195.
MainFolders ==
    /\ pc = "main_folders"
    /\ IF rm_folders
       THEN SweepBegin("folders")
       ELSE /\ pc' = "done"
            /\ UNCHANGED <<sweep, cnt, rm_time, todo, err, snap, cuts>>
    /\ UNCHANGED <<fs, pathKind, clock, opts, f, fi_cnt, fo_cnt, envLeft, fin, prev>>

\* Lines 94-97 and 120-123: the next name of the listing and the re-check of
\* its kind; lines 106, 186 and 132, 192 when the listing is exhausted.
LoopHead ==
    /\ pc = "loop"
    /\ IF todo = <<>>
       THEN /\ IF sweep = "files"
               THEN fi_cnt' = cnt /\ fo_cnt' = fo_cnt /\ pc' = "main_folders"
               ELSE fo_cnt' = cnt /\ fi_cnt' = fi_cnt /\ pc' = "done"
            /\ fin' = fin \cup {sweep}
            /\ UNCHANGED <<todo, f>>
       ELSE /\ f' = Head(todo)
            /\ todo' = Tail(todo)
            /\ pc' = IF KindOk(sweep, fs[Head(todo)]) THEN "older" ELSE "loop"
            /\ UNCHANGED <<fi_cnt, fo_cnt, fin>>
    /\ UNCHANGED <<fs, pathKind, clock, opts, sweep, rm_time, cnt, err, envLeft, snap, cuts, prev>>

\* Lines 98-99 and 124-125: os.path.getctime and the comparison.
CheckOlder ==
    /\ pc = "older"
    /\ IF fs[f].kind = "none"
       THEN Raise("FileNotFoundError")
       ELSE /\ pc' = IF is_older(fs[f], rm_time) THEN "rm" ELSE "loop"
            /\ err' = err
    /\ UNCHANGED <<fs, pathKind, clock, opts, sweep, rm_time, todo, f, cnt,
                   fi_cnt, fo_cnt, envLeft, obs>>

DryRunIgnored == FALSE
DryRunAlways == TRUE

\* Lines 100 and 126: the dry-run flag, as __main__ passes it.
DryRun == dryrun

CountedNot(c) == c

\* Lines 105 and 131: cnt += 1.
Counted(c) == c + 1

RemoveFailedCaught(e) ==
    /\ pc' = "loop"
    /\ err' = err

\* Lines 102 and 128 raising: nothing catches the exception.
RemoveFailed(e) == Raise(e)

\* Lines 100-105 and 126-131: delete or report, then count.
Remove ==
    /\ pc = "rm"
    /\ IF DryRun
       THEN /\ cnt' = Counted(cnt)
            /\ pc' = "loop"
            /\ UNCHANGED <<fs, err>>
       ELSE \E r \in RemoveCall(sweep, fs[f]) :
                IF r = ""
                THEN /\ fs' = [fs EXCEPT ![f] = Absent]
                     /\ cnt' = Counted(cnt)
                     /\ pc' = "loop"
                     /\ err' = err
                ELSE /\ \E e \in AfterFailure(sweep, fs[f]) :
                            fs' = [fs EXCEPT ![f] = e]
                     /\ cnt' = cnt
                     /\ RemoveFailed(r)
    /\ UNCHANGED <<pathKind, clock, opts, sweep, rm_time, todo, f, fi_cnt,
                   fo_cnt, envLeft, obs>>

\* Line 197, run again (the cron job of line 15) with the same options.
Rerun ==
    /\ pc \in {"done", "error"}
    /\ pc' = "start"
    /\ sweep' = "none"
    /\ rm_time' = NoTime
    /\ todo' = <<>>
    /\ cnt' = 0
    /\ fi_cnt' = 0
    /\ fo_cnt' = 0
    /\ err' = ""
    /\ prev' = [k \in Kinds |->
                  IF k \in fin
                  THEN [cut |-> cuts[k],
                        cnt |-> IF k = "files" THEN fi_cnt ELSE fo_cnt]
                  ELSE [cut |-> NoTime, cnt |-> 0]]
    /\ cuts' = [k \in Kinds |-> NoTime]
    /\ fin' = {}
    /\ snap' = [k \in Kinds |-> fs]
    /\ UNCHANGED <<fs, pathKind, clock, opts, f, envLeft>>

\* The wall clock advances by a second.
Tick ==
    /\ clock < MaxClock
    /\ clock' = clock + 1
    /\ UNCHANGED <<fs, pathKind, opts, pc, sweep, rm_time, todo, f, cnt,
                   fi_cnt, fo_cnt, err, envLeft, obs>>

\* Another process removes a child.
EnvRemove(n) ==
    /\ envLeft > 0
    /\ pathKind = "dir"
    /\ fs[n].kind # "none"
    /\ fs' = [fs EXCEPT ![n] = Absent]
    /\ envLeft' = envLeft - 1
    /\ UNCHANGED <<pathKind, clock, opts, pc, sweep, rm_time, todo, f, cnt,
                   fi_cnt, fo_cnt, err, obs>>

\* Another process replaces a child by a new entry of the other kind.
EnvReplace(n) ==
    /\ envLeft > 0
    /\ pathKind = "dir"
    /\ fs[n].kind # "none"
    /\ fs' = [fs EXCEPT ![n] =
                [kind |-> IF fs[n].kind = "file" THEN "dir" ELSE "file",
                 ctime |-> clock, sub |-> {}]]
    /\ envLeft' = envLeft - 1
    /\ UNCHANGED <<pathKind, clock, opts, pc, sweep, rm_time, todo, f, cnt,
                   fi_cnt, fo_cnt, err, obs>>

\* One step of the script.
Program ==
    \/ MainValidate
    \/ MainFiles
    \/ MainFolders
    \/ LoopHead
    \/ CheckOlder
    \/ Remove

Next ==
    \/ Program
    \/ Rerun
    \/ Tick

NextEnv ==
    \/ Program
    \/ Tick
    \/ \E n \in Names : EnvRemove(n)
    \/ \E n \in Names : EnvReplace(n)

\* The script, run and run again, alone with the directory.
Spec == Init /\ [][Next]_vars

\* One run of the script on a directory of at most two children, its sub
\* folders empty, while another process changes the directory.
InitEnv ==
    /\ Init
    /\ pathKind = "dir"
    /\ fs[NameSeq[1]] = Absent
    /\ \A n \in Names : fs[n].sub = {}
SpecEnv == InitEnv /\ [][NextEnv]_vars

\* -------------------------------------------------------------- claims ----

KindName(k) == IF k = "files" THEN "file" ELSE "dir"
Range(s) == {s[i] : i \in DOMAIN s}
\* The children of kind k when sweep k was entered, and those of them whose
\* status-change time was strictly before the sweep's cutoff.
OfKind(k) == {n \in Names : snap[k][n].kind = KindName(k)}
Eligible(k) == {n \in OfKind(k) : snap[k][n].ctime < cuts[k]}
\* What sweep k returned.
Count(k) == IF k = "files" THEN fi_cnt ELSE fo_cnt
\* Sweep k has returned and nothing has run since.
JustReturned(k) ==
    /\ k \in fin
    /\ pc = IF k = "files" THEN "main_folders" ELSE "done"
\* The candidates sweep k is done with.
Processed(k) ==
    (OfKind(k) \ Range(todo))
        \ (IF pc \in {"older", "rm", "error"} THEN {f} ELSE {})

\* C1: a dry-run sweep leaves every child of the directory (name, kind,
\* status-change time, contents of sub folders) as it was when the sweep was
\* entered, and returns the number of children of its kind whose status-change
\* time is strictly before the cutoff.
C1_DryRunNonDestructive ==
    dryrun =>
        \A k \in Kinds :
            /\ cuts[k] # NoTime => fs = snap[k]
            /\ k \in fin => Count(k) = Cardinality(Eligible(k))

C1_Witness ==
    /\ dryrun
    /\ fin = Kinds
    /\ fi_cnt >= 1
    /\ fo_cnt >= 1
    /\ \E n \in Eligible("folders") : fs[n].sub # {}

\* C2: a child of the swept kind whose status-change time is the cutoff or
\* later is never removed; in a sweep that is not a dry run and has returned,
\* a child one second older than the cutoff is gone.
C2_Boundary ==
    \A k \in Kinds :
        cuts[k] # NoTime =>
            \A n \in OfKind(k) :
                /\ snap[k][n].ctime >= cuts[k] => fs[n] = snap[k][n]
                /\ (~dryrun /\ JustReturned(k)
                        /\ snap[k][n].ctime = cuts[k] - 1) => fs[n] = Absent

C2_Witness ==
    /\ ~dryrun
    /\ \E k \in Kinds :
          /\ JustReturned(k)
          /\ \E n, m \in OfKind(k) :
                /\ snap[k][n].ctime = cuts[k]
                /\ fs[n] = snap[k][n]
                /\ snap[k][m].ctime = cuts[k] - 1
                /\ fs[m] = Absent

\* C3: no step of a files sweep changes or deletes a child that is a
\* directory, and no step of a folders sweep one that is a regular file, also
\* when another process changes the directory during the sweep.
C3_KindIsolation ==
    [][Program =>
          \A n \in Names :
              (\/ sweep = "files" /\ fs[n].kind = "dir"
               \/ sweep = "folders" /\ fs[n].kind = "file")
                  => fs'[n] = fs[n]]_vars

C3_Witness ==
    /\ sweep = "files"
    /\ pc = "loop"
    /\ ~dryrun
    /\ cnt >= 1
    /\ rm_files_after = rm_folders_after
    /\ \E n \in Names : fs[n].kind = "dir" /\ fs[n].ctime < rm_time

\* C4: when a sweep that is not a dry run has returned, its count is the
\* number of children of its kind that were strictly older than the cutoff
\* when it was entered, exactly those are gone and every other child is as it
\* was, whatever the order of the listing.
C4_CountCorrect ==
    ~dryrun =>
        \A k \in Kinds :
            JustReturned(k) =>
                /\ Count(k) = Cardinality(Eligible(k))
                /\ \A n \in Names :
                      fs[n] = IF n \in Eligible(k) THEN Absent ELSE snap[k][n]

C4_Witness ==
    /\ ~dryrun
    /\ JustReturned("folders")
    /\ fo_cnt = 2
    /\ \E n \in Names : fs[n].kind = "dir"

\* C5: a sweep that follows a returned sweep of the same kind of the run
\* before, with the same cutoff and not as a dry run, deletes nothing and
\* returns 0.
C5_Idempotent ==
    ~dryrun =>
        \A k \in Kinds :
            (prev[k].cut # NoTime /\ cuts[k] = prev[k].cut) =>
                /\ sweep = k => cnt = 0 /\ fs = snap[k]
                /\ k \in fin => Count(k) = 0

C5_Witness ==
    /\ ~dryrun
    /\ "files" \in fin
    /\ prev["files"].cut = cuts["files"]
    /\ prev["files"].cnt >= 1
    /\ fi_cnt = 0

\* C6, as claimed: what the sub folders hold is never removed.
C6_NestedNeverRemoved ==
    [][\A n \in Names : fs[n].sub \subseteq fs'[n].sub]_vars

\* C6, amended: what a sub folder holds changes only by the recursive delete
\* of that sub folder, in a folders sweep that is not a dry run, when the sub
\* folder's own status-change time is strictly before the cutoff; the age of
\* what it holds plays no part.
C6_NestedOnlyWithParent ==
    [][\A n \in Names :
          fs'[n].sub # fs[n].sub =>
              /\ pc = "rm"
              /\ sweep = "folders"
              /\ f = n
              /\ ~dryrun
              /\ fs[n].kind = "dir"
              /\ fs[n].ctime < rm_time
              /\ fs'[n].sub \subseteq fs[n].sub]_vars

C6_Witness ==
    /\ sweep = "folders"
    /\ ~dryrun
    /\ \E n \in Eligible("folders") :
          /\ fs[n] = Absent
          /\ \E x \in snap["folders"][n].sub : x.ctime >= cuts["folders"]
    /\ \E m \in Processed("folders") :
          /\ fs[m].kind = "dir"
          /\ \E x \in fs[m].sub : x.ctime < cuts["folders"]

\* C7: when PATH is not an existing directory the run ends with
\* NotADirectoryError before either sweep is entered, and nothing is deleted.
C7_InvalidTarget ==
    (pathKind # "dir" /\ pc # "start") =>
        /\ pc = "error"
        /\ err = "NotADirectoryError"
        /\ sweep = "none"
        /\ fin = {}
        /\ \A k \in Kinds : cuts[k] = NoTime /\ fs = snap[k]

C7_Witness ==
    /\ pathKind = "file"
    /\ pc = "error"
    /\ rm_files
    /\ rm_folders
    /\ ~dryrun

\* C8: in a sweep that is not a dry run every candidate the sweep is done
\* with was either strictly older than the cutoff and is gone, or is as it
\* was: no failed delete is passed over. Every candidate not yet reached is
\* as it was. When a delete has failed the run has ended there: the sweep has
\* not returned, the candidate it failed on is still in place, and after a
\* failure in the files sweep the folders sweep is not entered and every sub
\* folder is as it was.
C8_FailFast ==
    \A k \in Kinds :
        (sweep = k /\ ~dryrun) =>
            /\ \A n \in Processed(k) :
                  fs[n] = IF n \in Eligible(k) THEN Absent ELSE snap[k][n]
            /\ \A n \in Range(todo) : fs[n] = snap[k][n]
            /\ pc = "error" =>
                  /\ k \notin fin
                  /\ f \in Eligible(k)
                  /\ fs[f].kind = snap[k][f].kind
                  /\ fs[f].ctime = snap[k][f].ctime
                  /\ fs[f].sub \subseteq snap[k][f].sub
                  /\ k = "files" =>
                        /\ cuts["folders"] = NoTime
                        /\ \A n \in Names :
                              snap[k][n].kind = "dir" => fs[n] = snap[k][n]

C8_Witness ==
    /\ pc = "error"
    /\ sweep = "files"
    /\ ~dryrun
    /\ rm_folders
    /\ cnt = 1
    /\ todo # <<>>
    /\ Head(todo) \in Eligible("files")

\* C9, as claimed: the sweeps of one run that have the same threshold use
\* one and the same cutoff.
C9_SameCutoffInRun ==
    (/\ cuts["files"] # NoTime
     /\ cuts["folders"] # NoTime
     /\ rm_files_after = rm_folders_after) => cuts["files"] = cuts["folders"]

\* C9, amended: the cutoff of a sweep is 23:59:59 of the day on which that
\* sweep is entered minus its threshold in days, and it stays the same until
\* the sweep returns, also when the clock advances meanwhile.
C9_CutoffPerSweep ==
    [][/\ (pc \in {"main_files", "main_folders"} /\ pc' = "loop") =>
              rm_time' = EndOfDay((clock \div SecondsPerDay)
                                      - ThresholdOf(sweep'))
       /\ pc \in {"loop", "older", "rm"} => rm_time' = rm_time]_vars

C9_Witness ==
    /\ pc \in {"older", "rm"}
    /\ rm_time # EndOfDay((clock \div SecondsPerDay) - ThresholdOf(sweep))

\* C10: when the sweep reaches a listed candidate that is no longer there, or
\* is no longer of the sweep's kind, it deletes nothing, counts nothing,
\* raises nothing and goes on with the rest of the listing.
C10_SkipChanged ==
    [][(/\ LoopHead
        /\ todo # <<>>
        /\ fs[Head(todo)].kind # KindName(sweep)) =>
            /\ fs' = fs
            /\ cnt' = cnt
            /\ err' = err
            /\ pc' = "loop"
            /\ todo' = Tail(todo)]_vars

\* A candidate that another process replaced by an entry of the other kind,
\* itself older than the cutoff, was passed over and more candidates follow.
C10_Witness ==
    /\ pc = "loop"
    /\ sweep # "none"
    /\ cnt = 0
    /\ todo # <<>>
    /\ f \notin Range(todo)
    /\ snap[sweep][f].kind = KindName(sweep)
    /\ fs[f].kind \notin {"none", KindName(sweep)}
    /\ fs[f].ctime < rm_time

====
